---- MODULE Spec2Model ----
(***************************************************************************)
(* Model of moat's access-rules updater (src/moat/src/access_rules.rs):    *)
(* the periodic task start_access_rules_updater, one cycle                 *)
(* fetch_and_apply, and apply_rules_to_skel with its two entry parsers.    *)
(*                                                                         *)
(* A string is a sequence of one-character strings.  An Ipv4Addr is its    *)
(* four octets, an Ipv6Addr its eight 16-bit segments, a u32 is a sequence *)
(* of U32Bits bits, most significant first.  Option<T> is <<>> (None) or   *)
(* <<x>> (Some(x)).  A network is <<address, prefix>>.                     *)
(***************************************************************************)
EXTENDS Integers, Sequences, FiniteSets, TLC

\* let x = e; F(x): e is evaluated once, whatever use F makes of x
Bind(e, F(_)) == CHOOSE y \in {F(x) : x \in {e}} : TRUE

\* ------------------------------------------------------------ Option<T>
None == <<>>
Some(x) == <<x>>
IsSome(o) == Len(o) = 1
IsNone(o) == Len(o) = 0
Unwrap(o) == o[1]

\* ------------------------------------------------------------ str helpers
DecDigits == {"0", "1", "2", "3", "4", "5", "6", "7", "8", "9"}
HexLetters == {"a", "b", "c", "d", "e", "f"}

DigitVal(c) ==
  CASE c = "0" -> 0 [] c = "1" -> 1 [] c = "2" -> 2 [] c = "3" -> 3
    [] c = "4" -> 4 [] c = "5" -> 5 [] c = "6" -> 6 [] c = "7" -> 7
    [] c = "8" -> 8 [] c = "9" -> 9 [] c = "a" -> 10 [] c = "b" -> 11
    [] c = "c" -> 12 [] c = "d" -> 13 [] c = "e" -> 14 [] c = "f" -> 15

IsWhitespace(c) == c = " "

\* str::contains(char)
Contains(s, c) == \E i \in 1..Len(s) : s[i] = c

\* str::trim: from the first to the last character that is no whitespace
Trim(s) ==
  Bind({i \in 1..Len(s) : ~IsWhitespace(s[i])}, LAMBDA keep :
    IF keep = {} THEN <<>>
    ELSE SubSeq(s, CHOOSE i \in keep : \A j \in keep : i <= j,
                   CHOOSE i \in keep : \A j \in keep : j <= i))

\* str::split(char), collected: the pieces between the separators, one more
\* than there are separators
Split(s, c) ==
  Bind({i \in 1..Len(s) : s[i] = c}, LAMBDA seps :
    LET Pos(k) == IF k = 0 THEN 0
                  ELSE IF k > Cardinality(seps) THEN Len(s) + 1
                  ELSE CHOOSE i \in seps :
                         Cardinality({j \in seps : j < i}) = k - 1
    IN  [k \in 1..(Cardinality(seps) + 1) |->
           SubSeq(s, Pos(k - 1) + 1, Pos(k) - 1)])

\* the digit loop of an integer parse in the given radix from position i
\* on, with the checked multiply-and-add: None as soon as the value
\* exceeds max
RECURSIVE ReadNumber(_, _, _, _, _)
ReadNumber(s, i, radix, max, acc) ==
  IF i > Len(s) THEN Some(acc)
  ELSE Bind(acc * radix + DigitVal(s[i]), LAMBDA v :
         IF v > max THEN None ELSE ReadNumber(s, i + 1, radix, max, v))

\* a parse that wraps around at 256 instead of failing on overflow
ParseU8Wrapping(s) ==
  Bind(IF Len(s) > 0 /\ s[1] = "+" THEN Tail(s) ELSE s, LAMBDA d :
    IF Len(d) = 0 \/ \E i \in 1..Len(d) : d[i] \notin DecDigits
    THEN None
    ELSE Bind(ReadNumber(d, 1, 10, 99999, 0), LAMBDA r :
           IF IsNone(r) THEN None ELSE Some(Unwrap(r) % 256)))

\* str::parse::<u8>(): an optional '+', then one or more decimal digits,
\* value at most 255
ParseU8(s) ==
  Bind(IF Len(s) > 0 /\ s[1] = "+" THEN Tail(s) ELSE s, LAMBDA d :
    IF Len(d) = 0 \/ \E i \in 1..Len(d) : d[i] \notin DecDigits
    THEN None
    ELSE ReadNumber(d, 1, 10, 255, 0))

\* ------------------------------------------------------------ std::net
\* one octet of a dotted quad: 1 to 3 digits, no leading zero, at most 255
Ipv4Octet(p) ==
  IF \/ Len(p) = 0
     \/ Len(p) > 3
     \/ \E i \in 1..Len(p) : p[i] \notin DecDigits
     \/ (Len(p) > 1 /\ p[1] = "0")
  THEN None
  ELSE ReadNumber(p, 1, 10, 255, 0)

\* Ipv4Addr::from_str
Ipv4FromStr(s) ==
  Bind(Split(s, "."), LAMBDA parts :
    IF Len(parts) # 4 THEN None
    ELSE Bind([i \in 1..4 |-> Ipv4Octet(parts[i])], LAMBDA octets :
           IF \E i \in 1..4 : IsNone(octets[i]) THEN None
           ELSE Some([i \in 1..4 |-> Unwrap(octets[i])])))

\* one group of an IPv6 address: 1 to 4 hexadecimal digits
Ipv6Group(p) ==
  IF \/ Len(p) = 0
     \/ Len(p) > 4
     \/ \E i \in 1..Len(p) : p[i] \notin (DecDigits \cup HexLetters)
  THEN None
  ELSE ReadNumber(p, 1, 16, 65535, 0)

\* a run of groups separated by single colons; the last may be a dotted
\* quad standing for two groups.  Some([segs, v4]) or None
Ipv6Groups(t) ==
  IF Len(t) = 0 THEN Some([segs |-> <<>>, v4 |-> FALSE])
  ELSE
    Bind(Split(t, ":"), LAMBDA parts :
      Bind(Contains(parts[Len(parts)], "."), LAMBDA quad :
        Bind([i \in 1..(IF quad THEN Len(parts) - 1 ELSE Len(parts)) |->
                Ipv6Group(parts[i])], LAMBDA groups :
          Bind(IF quad THEN Ipv4FromStr(parts[Len(parts)]) ELSE None,
               LAMBDA q :
            IF \/ \E i \in 1..Len(groups) : IsNone(groups[i])
               \/ (quad /\ IsNone(q))
            THEN None
            ELSE Some([segs |->
                         [i \in 1..Len(groups) |-> Unwrap(groups[i])]
                         \o (IF quad
                             THEN <<Unwrap(q)[1] * 256 + Unwrap(q)[2],
                                    Unwrap(q)[3] * 256 + Unwrap(q)[4]>>
                             ELSE <<>>),
                       v4 |-> quad])))))

\* Ipv6Addr::from_str: eight groups, or fewer around one "::" that stands
\* for at least one zero group
Ipv6FromStr(s) ==
  Bind({i \in 1..(Len(s) - 1) : s[i] = ":" /\ s[i + 1] = ":"}, LAMBDA gaps :
    IF gaps = {}
    THEN Bind(Ipv6Groups(s), LAMBDA g :
           IF IsSome(g) /\ Len(Unwrap(g).segs) = 8
           THEN Some(Unwrap(g).segs)
           ELSE None)
    ELSE Bind(CHOOSE k \in gaps : \A j \in gaps : k <= j, LAMBDA i :
           Bind(Ipv6Groups(SubSeq(s, 1, i - 1)), LAMBDA gh :
             Bind(Ipv6Groups(SubSeq(s, i + 2, Len(s))), LAMBDA gt :
               IF \/ IsNone(gh) \/ IsNone(gt)
                  \/ Unwrap(gh).v4
                  \/ Len(Unwrap(gh).segs) + Len(Unwrap(gt).segs) > 7
               THEN None
               ELSE Some(Unwrap(gh).segs
                         \o [k \in 1..(8 - Len(Unwrap(gh).segs)
                                         - Len(Unwrap(gt).segs)) |-> 0]
                         \o Unwrap(gt).segs)))))

\* ------------------------------------------------------------ u32
U32Bits == 32

\* u32::MAX
U32Max == [i \in 1..U32Bits |-> 1]

\* u32::from(Ipv4Addr): the octets, big-endian
U32FromIpv4(ip) ==
  [i \in 1..U32Bits |->
     (ip[((i - 1) \div 8) + 1] \div (2 ^ (7 - ((i - 1) % 8)))) % 2]

\* the value of the eight bits of x from position i on
BitsValue(x, i) ==
  x[i] * 128 + x[i + 1] * 64 + x[i + 2] * 32 + x[i + 3] * 16
  + x[i + 4] * 8 + x[i + 5] * 4 + x[i + 6] * 2 + x[i + 7]

\* Ipv4Addr::from(u32)
Ipv4FromU32(x) == [k \in 1..4 |-> BitsValue(x, 8 * (k - 1) + 1)]

\* u32::checked_shl: None when the shift is not below the width
CheckedShl(x, n) ==
  IF n >= U32Bits THEN None
  ELSE Some([i \in 1..U32Bits |-> IF i + n <= U32Bits THEN x[i + n] ELSE 0])

\* Option::unwrap_or(0) on a u32
UnwrapOrZero(o) == IF IsSome(o) THEN Unwrap(o) ELSE [i \in 1..U32Bits |-> 0]

\* u32 & u32
BitAnd(x, y) == [i \in 1..U32Bits |-> x[i] * y[i]]

\* ------------------------------------------------------------ the parsers
\* the network mask of parse_ipv4_ip_or_cidr
Ipv4Mask(prefix) ==
  IF prefix = 0 THEN [i \in 1..U32Bits |-> 0]
  ELSE UnwrapOrZero(CheckedShl(U32Max, 32 - prefix))

\* the masking of parse_ipv4_ip_or_cidr: ip_u32 & mask, as an address
Ipv4Network(ip, prefix) ==
  Bind(U32FromIpv4(ip), LAMBDA ip_u32 :
    Bind(Ipv4Mask(prefix), LAMBDA mask :
      Bind(BitAnd(ip_u32, mask), LAMBDA net : Ipv4FromU32(net))))

\* parse_ipv4_ip_or_cidr: Some(<<network, prefix>>) or None
parse_ipv4_ip_or_cidr(entry) ==
  Bind(Trim(entry), LAMBDA s :
    IF Len(s) = 0 THEN None
    ELSE IF Contains(s, ":") THEN None
    ELSE IF ~Contains(s, "/")
         THEN Bind(Ipv4FromStr(s), LAMBDA ip :
                IF IsSome(ip) THEN Some(<<Unwrap(ip), 32>>) ELSE None)
    ELSE Bind(Split(s, "/"), LAMBDA parts :
           IF Len(parts) > 2 THEN None
           ELSE Bind(Ipv4FromStr(Trim(parts[1])), LAMBDA ip :
                  IF IsNone(ip) THEN None
                  ELSE Bind(ParseU8(Trim(parts[2])), LAMBDA prefix :
                         IF IsNone(prefix) THEN None
                         ELSE IF Unwrap(prefix) > 32 THEN None
                         ELSE Some(<<Ipv4Network(Unwrap(ip), Unwrap(prefix)),
                                     Unwrap(prefix)>>)))))

\* parse_ipv6_ip_or_cidr: Some(<<address, prefix>>) or None; the address is
\* returned as parsed
parse_ipv6_ip_or_cidr(entry) ==
  Bind(Trim(entry), LAMBDA s :
    IF Len(s) = 0 THEN None
    ELSE IF ~Contains(s, ":") THEN None
    ELSE IF ~Contains(s, "/")
         THEN Bind(Ipv6FromStr(s), LAMBDA ip :
                IF IsSome(ip) THEN Some(<<Unwrap(ip), 128>>) ELSE None)
    ELSE Bind(Split(s, "/"), LAMBDA parts :
           IF Len(parts) > 2 THEN None
           ELSE Bind(Ipv6FromStr(Trim(parts[1])), LAMBDA ip :
                  IF IsNone(ip) THEN None
                  ELSE Bind(ParseU8(Trim(parts[2])), LAMBDA prefix :
                         IF IsNone(prefix) THEN None
                         ELSE IF Unwrap(prefix) > 128 THEN None
                         ELSE Some(<<Unwrap(ip), Unwrap(prefix)>>)))))

\* ------------------------------------------------------------ policy flattening
\* the body of the three entry loops of apply_rules_to_skel: the family is
\* taken from the ':' and the entry inserted if its parser accepts it.
\* acc is [v4, v6], the pair current_rules, current_rules_v6
InsertEntry(ip_str, acc) ==
  IF Contains(ip_str, ":")
  THEN Bind(parse_ipv6_ip_or_cidr(ip_str), LAMBDA r :
         IF IsSome(r) THEN [acc EXCEPT !.v6 = @ \cup {Unwrap(r)}] ELSE acc)
  ELSE Bind(parse_ipv4_ip_or_cidr(ip_str), LAMBDA r :
         IF IsSome(r) THEN [acc EXCEPT !.v4 = @ \cup {Unwrap(r)}] ELSE acc)

\* for ip_str in list, from position i on
RECURSIVE InsertEntries(_, _, _)
InsertEntries(list, i, acc) ==
  IF i > Len(list) THEN acc
  ELSE Bind(InsertEntry(list[i], acc), LAMBDA next :
         InsertEntries(list, i + 1, next))

\* for (_key, list) in map.iter(): every entry of the map, once
RECURSIVE InsertMap(_, _, _)
InsertMap(m, keys, acc) ==
  IF keys = {} THEN acc
  ELSE Bind(CHOOSE x \in keys : TRUE, LAMBDA k :
         Bind(InsertEntries(m[k], 1, acc), LAMBDA next :
           Bind(keys \ {k}, LAMBDA rest : InsertMap(m, rest, next))))

\* for map in &rule.block.country / &rule.block.asn, from position i on
RECURSIVE InsertMaps(_, _, _)
InsertMaps(maps, i, acc) ==
  IF i > Len(maps) THEN acc
  ELSE Bind(InsertMap(maps[i], DOMAIN maps[i], acc), LAMBDA next :
         InsertMaps(maps, i + 1, next))

\* current_rules and current_rules_v6 of a fetched block section
Flatten(block) ==
  Bind(InsertEntries(block.ips, 1, [v4 |-> {}, v6 |-> {}]), LAMBDA a :
    Bind(InsertMaps(block.country, 1, a), LAMBDA b :
      InsertMaps(block.asn, 1, b)))

\* ------------------------------------------------------------ diff and apply
\* *previous_rules_guard != current_rules
RulesChanged(previous, current) == previous # current

\* a wrong difference: every previous entry is taken as gone
ToRemoveAll(previous, current) == previous

\* previous.difference(&current): the entries to unban
ToRemove(previous, current) == previous \ current

\* a wrong difference: every current entry is taken as new
ToAddAll(previous, current) == current

\* current.difference(&previous): the entries to ban
ToAdd(previous, current) == current \ previous

\* a wrong batch: when the block runs, every current entry is banned again
BatchReapplyAll(previous, current, changed) ==
  [unban |-> previous \ current, ban |-> current]

\* a wrong batch: the table is flushed and rebuilt whatever the flag says
BatchFlush(previous, current, changed) ==
  [unban |-> previous, ban |-> current]

\* the calls of one family's block, if ipv4_changed { ... } /
\* if ipv6_changed { ... }: nothing when the family is unchanged
Batch(previous, current, changed) ==
  IF changed
  THEN [unban |-> ToRemove(previous, current), ban |-> ToAdd(previous, current)]
  ELSE [unban |-> {}, ban |-> {}]

\* a wrong order: additions first
NextCallBanFirst(unbans, bans) ==
  IF bans # {} THEN "ban" ELSE IF unbans # {} THEN "unban" ELSE "done"

\* the order of a block: the unban loop, then the ban loop, then the
\* assignment to the baseline
NextCall(unbans, bans) ==
  IF unbans # {} THEN "unban" ELSE IF bans # {} THEN "ban" ELSE "done"

\* a wrong loop: the first failed call ends it
AfterCallAbort(todo, net, ok) == IF ok THEN todo \ {net} ELSE {}

\* if let Err(e) = fw.ban_ip(..) { eprintln!(..) }: the loop goes on to the
\* next entry whether the call failed or not
AfterCall(todo, net, ok) == todo \ {net}

\* a wrong assignment: removed entries stay in the baseline
AdvanceBaselineKeepOld(previous, current) == previous \cup current

\* *previous_rules_guard = current_rules
AdvanceBaseline(previous, current) == current

\* a wrong handler: a failed cycle ends the task
AfterCycleStopOnErr(res) == IF res = "Err" THEN "Stopped" ELSE "Select"

\* if let Err(e) = fetch_and_apply(..).await { eprintln!(..) }: the task
\* goes (back) to the select! of the loop
AfterCycle(res) == "Select"

\* ------------------------------------------------------------ the ticker
Period == 10

\* a ticker that keeps its original grid after a late tick
\* (MissedTickBehavior::Burst, the default of tokio::time::interval)
NextDeadlineBurst(deadline, t) == deadline + Period

\* Interval::tick with MissedTickBehavior::Delay: the next deadline after a
\* tick that completed at time t
NextDeadline(deadline, t) ==
  IF t > deadline THEN t + Period ELSE deadline + Period

\* ------------------------------------------------------------ inputs
\* entries of fetched policies
S_1_2_3_0_24 == <<"1", ".", "2", ".", "3", ".", "0", "/", "2", "4">>  \* "1.2.3.0/24"
S_1_2_3_0_25 == <<"1", ".", "2", ".", "3", ".", "0", "/", "2", "5">>  \* "1.2.3.0/25"
S_10_0_0_5_24 == <<"1", "0", ".", "0", ".", "0", ".", "5", "/", "2", "4">>  \* "10.0.0.5/24"
S_10_0_0_5 == <<"1", "0", ".", "0", ".", "0", ".", "5">>  \* "10.0.0.5"
S_10_0_0_5_24_padded == <<" ", "1", "0", ".", "0", ".", "0", ".", "5", " ", "/", " ", "2", "4", " ">>  \* " 10.0.0.5 / 24 "
S_10_0_0_0_24 == <<"1", "0", ".", "0", ".", "0", ".", "0", "/", "2", "4">>  \* "10.0.0.0/24"
S_255_255_255_255_0 == <<"2", "5", "5", ".", "2", "5", "5", ".", "2", "5", "5", ".", "2", "5", "5", "/", "0">>  \* "255.255.255.255/0"
S_255_255_255_255_1 == <<"2", "5", "5", ".", "2", "5", "5", ".", "2", "5", "5", ".", "2", "5", "5", "/", "1">>  \* "255.255.255.255/1"
S_255_255_255_255_31 == <<"2", "5", "5", ".", "2", "5", "5", ".", "2", "5", "5", ".", "2", "5", "5", "/", "3", "1">>  \* "255.255.255.255/31"
S_255_255_255_255_32 == <<"2", "5", "5", ".", "2", "5", "5", ".", "2", "5", "5", ".", "2", "5", "5", "/", "3", "2">>  \* "255.255.255.255/32"
S_172_16_99_7_12 == <<"1", "7", "2", ".", "1", "6", ".", "9", "9", ".", "7", "/", "1", "2">>  \* "172.16.99.7/12"
S_2001_db8_1_64 == <<"2", "0", "0", "1", ":", "d", "b", "8", ":", ":", "1", "/", "6", "4">>  \* "2001:db8::1/64"
S_2001_db8_64 == <<"2", "0", "0", "1", ":", "d", "b", "8", ":", ":", "/", "6", "4">>  \* "2001:db8::/64"
S_2001_db8_1 == <<"2", "0", "0", "1", ":", "d", "b", "8", ":", ":", "1">>  \* "2001:db8::1"
S_2001_db8_1_128 == <<"2", "0", "0", "1", ":", "d", "b", "8", ":", ":", "1", "/", "1", "2", "8">>  \* "2001:db8::1/128"
S_ffff_full_0 == <<"f", "f", "f", "f", ":", "f", "f", "f", "f", ":", "f", "f", "f", "f", ":", "f", "f", "f", "f", ":", "f", "f", "f", "f", ":", "f", "f", "f", "f", ":", "f", "f", "f", "f", ":", "f", "f", "f", "f", "/", "0">>  \* "ffff:ffff:ffff:ffff:ffff:ffff:ffff:ffff/0"
S_ffff_full_17 == <<"f", "f", "f", "f", ":", "f", "f", "f", "f", ":", "f", "f", "f", "f", ":", "f", "f", "f", "f", ":", "f", "f", "f", "f", ":", "f", "f", "f", "f", ":", "f", "f", "f", "f", ":", "f", "f", "f", "f", "/", "1", "7">>  \* "ffff:ffff:ffff:ffff:ffff:ffff:ffff:ffff/17"
S_fe80_1_10 == <<"f", "e", "8", "0", ":", ":", "1", "/", "1", "0">>  \* "fe80::1/10"
S_mapped_v4_96 == <<":", ":", "f", "f", "f", "f", ":", "1", ".", "2", ".", "3", ".", "4", "/", "9", "6">>  \* "::ffff:1.2.3.4/96"
S_empty == <<>>  \* ""
S_blank == <<" ", " ">>  \* "  "
S_not_an_ip == <<"n", "o", "t", "-", "a", "n", "-", "i", "p">>  \* "not-an-ip"
S_10_0_0_1_33 == <<"1", "0", ".", "0", ".", "0", ".", "1", "/", "3", "3">>  \* "10.0.0.1/33"
S_10_0_0_1_abc == <<"1", "0", ".", "0", ".", "0", ".", "1", "/", "a", "b", "c">>  \* "10.0.0.1/abc"
S_10_0_0_1_256 == <<"1", "0", ".", "0", ".", "0", ".", "1", "/", "2", "5", "6">>  \* "10.0.0.1/256"
S_10_0_0_1_8_8 == <<"1", "0", ".", "0", ".", "0", ".", "1", "/", "8", "/", "8">>  \* "10.0.0.1/8/8"
S_10_0_0_256_8 == <<"1", "0", ".", "0", ".", "0", ".", "2", "5", "6", "/", "8">>  \* "10.0.0.256/8"
S_10_0_0_8 == <<"1", "0", ".", "0", ".", "0", "/", "8">>  \* "10.0.0/8"
S_10_0_0_1_noprefix == <<"1", "0", ".", "0", ".", "0", ".", "1", "/">>  \* "10.0.0.1/"
S_2001_db8_1_200 == <<"2", "0", "0", "1", ":", "d", "b", "8", ":", ":", "1", "/", "2", "0", "0">>  \* "2001:db8::1/200"
S_2001_db8_1_129 == <<"2", "0", "0", "1", ":", "d", "b", "8", ":", ":", "1", "/", "1", "2", "9">>  \* "2001:db8::1/129"
S_2001_db8_bad == <<"2", "0", "0", "1", ":", "d", "b", "8", ":", ":", "g", "/", "6", "4">>  \* "2001:db8::g/64"
S_2001_two_gaps == <<"2", "0", "0", "1", ":", ":", "d", "b", "8", ":", ":", "1", "/", "6", "4">>  \* "2001::db8::1/64"
S_2001_db8_1_64_64 == <<"2", "0", "0", "1", ":", "d", "b", "8", ":", ":", "1", "/", "6", "4", "/", "6", "4">>  \* "2001:db8::1/64/64"
S_10_0_0_1_minus1 == <<"1", "0", ".", "0", ".", "0", ".", "1", "/", "-", "1">>  \* "10.0.0.1/-1"
S_2001_db8_1_abc == <<"2", "0", "0", "1", ":", "d", "b", "8", ":", ":", "1", "/", "a", "b", "c">>  \* "2001:db8::1/abc"
S_2001_db8_1_256 == <<"2", "0", "0", "1", ":", "d", "b", "8", ":", ":", "1", "/", "2", "5", "6">>  \* "2001:db8::1/256"
S_slash_24 == <<"/", "2", "4">>  \* "/24"

\* fetched block sections: the flat list, the per-country lists, the
\* per-ASN lists
P_empty == [ips |-> <<>>, country |-> <<>>, asn |-> <<>>]

P_slash24 == [ips |-> <<S_1_2_3_0_24>>, country |-> <<>>, asn |-> <<>>]

P_slash25 == [ips |-> <<S_1_2_3_0_25>>, country |-> <<>>, asn |-> <<>>]

P_slash25_v6 ==
  [ips     |-> <<S_1_2_3_0_25, S_2001_db8_64>>,
   country |-> <<>>,
   asn     |-> <<[as64500 |-> <<S_2001_db8_1_64>>]>>]

P_mixed ==
  [ips     |-> <<S_10_0_0_5_24, S_not_an_ip, S_2001_db8_1_64>>,
   country |-> <<[hu |-> <<S_10_0_0_0_24, S_172_16_99_7_12>>,
                  at |-> <<S_10_0_0_1_33>>]>>,
   asn     |-> <<[as64500 |-> <<S_2001_db8_64, S_1_2_3_0_24>>]>>]

Policies == {P_empty, P_slash24, P_slash25, P_slash25_v6, P_mixed}

\* addresses given to a parser alone: the text with the address it denotes
ParseAddrs ==
  {[fam |-> 4, text |-> <<"1", "0", ".", "0", ".", "0", ".", "5">>,
    addr |-> <<10, 0, 0, 5>>],
   [fam |-> 4, text |-> <<"2", "5", "5", ".", "2", "5", "5", ".",
                          "2", "5", "5", ".", "2", "5", "5">>,
    addr |-> <<255, 255, 255, 255>>],
   [fam |-> 4, text |-> <<"1", "7", "2", ".", "1", "6", ".",
                          "9", "9", ".", "7">>,
    addr |-> <<172, 16, 99, 7>>],
   [fam |-> 6, text |-> <<"2", "0", "0", "1", ":", "d", "b", "8",
                          ":", ":", "1">>,
    addr |-> <<8193, 3512, 0, 0, 0, 0, 0, 1>>],
   [fam |-> 6, text |-> <<"f", "f", "f", "f", ":", "f", "f", "f", "f", ":",
                          "f", "f", "f", "f", ":", "f", "f", "f", "f", ":",
                          "f", "f", "f", "f", ":", "f", "f", "f", "f", ":",
                          "f", "f", "f", "f", ":", "f", "f", "f", "f">>,
    addr |-> <<65535, 65535, 65535, 65535, 65535, 65535, 65535, 65535>>],
   [fam |-> 6, text |-> <<"f", "e", "8", "0", ":", ":", "a", "b", "c", "d",
                          ":", "1", "2", "3", "4">>,
    addr |-> <<65152, 0, 0, 0, 0, 0, 43981, 4660>>]}

\* ------------------------------------------------------------ bounds
MaxTime == 20
Quantum == 5
MaxFailures == 1
MaxPrefixText == 130

\* the decimal text of n
DigitChar(d) == <<"0", "1", "2", "3", "4", "5", "6", "7", "8", "9">>[d + 1]
Decimal(n) ==
  IF n < 10 THEN <<DigitChar(n)>>
  ELSE IF n < 100 THEN <<DigitChar(n \div 10), DigitChar(n % 10)>>
  ELSE <<DigitChar(n \div 100), DigitChar((n \div 10) % 10),
         DigitChar(n % 10)>>

\* entries of neither family, with what is wrong with them: nothing left
\* after trimming, more than one '/', the address part, the prefix part
MalformedEntries ==
  {<<S_empty, "empty">>, <<S_blank, "empty">>,
   <<S_10_0_0_1_8_8, "slashes">>, <<S_2001_db8_1_64_64, "slashes">>,
   <<S_not_an_ip, "address">>, <<S_10_0_0_256_8, "address">>,
   <<S_10_0_0_8, "address">>, <<S_slash_24, "address">>,
   <<S_2001_db8_bad, "address">>, <<S_2001_two_gaps, "address">>,
   <<S_10_0_0_1_33, "prefix">>, <<S_10_0_0_1_abc, "prefix">>,
   <<S_10_0_0_1_256, "prefix">>, <<S_10_0_0_1_noprefix, "prefix">>,
   <<S_10_0_0_1_minus1, "prefix">>, <<S_2001_db8_1_200, "prefix">>,
   <<S_2001_db8_1_129, "prefix">>, <<S_2001_db8_1_abc, "prefix">>,
   <<S_2001_db8_1_256, "prefix">>}

\* the entries given to a parser alone: an address of family fam with no
\* prefix (prefix -1) or with the prefix 0..MaxPrefixText, wrong only if
\* the prefix is beyond the family's range; and the malformed entries
\* (fam 0)
ParseInputs ==
  {[fam |-> a.fam, addr |-> a.addr, prefix |-> p,
    text |-> IF p < 0 THEN a.text ELSE a.text \o <<"/">> \o Decimal(p),
    wrong |-> IF p > (IF a.fam = 4 THEN 32 ELSE 128) THEN "prefix"
              ELSE "nothing"] :
     a \in ParseAddrs, p \in -1..MaxPrefixText}
  \cup {[fam |-> 0, addr |-> <<>>, prefix |-> -1, text |-> m[1],
         wrong |-> m[2]] : m \in MalformedEntries}

\* ------------------------------------------------------------ state
VARIABLES
  pc,                 \* where the task is: "Starting", "Fetch", "ApplyV4",
                      \* "ApplyV6", "Returned", "Select", "Stopped"
  now,                \* the clock, in seconds since the task was spawned
  ticker,             \* Some(next deadline of the interval) once created
  shutdown,           \* the watch channel: its value, and whether the
                      \* receiver has a change it has not seen yet
  skel,               \* whether the updater was given a firewall handle
  previous_rules,     \* the IPv4 baseline
  previous_rules_v6,  \* the IPv6 baseline
  resp,               \* Some(fetched block) during a cycle
  current_rules,      \* locals of apply_rules_to_skel
  current_rules_v6,
  ipv4_changed,
  ipv6_changed,
  todo_unban,         \* what the unban loop of the running block has left
  todo_ban,           \* what the ban loop of the running block has left
  result,             \* what fetch_and_apply returned: "Ok", "Err", "None"
  calls,              \* the firewall calls of the cycle, in order
  banned_ips,         \* the keys of the IPv4 table
  banned_ips_v6,      \* the keys of the IPv6 table
  nfail,              \* how many firewall calls have failed so far
  base,               \* [v4, v6]: the baselines when the cycle started
  input,              \* Some(the entry given to a parser alone)
  parsed              \* Some(what the parser returned for it)

schedVars == <<pc, now, ticker, shutdown, skel>>
baseVars == <<previous_rules, previous_rules_v6>>
cycleVars == <<resp, current_rules, current_rules_v6, ipv4_changed,
               ipv6_changed, todo_unban, todo_ban, result, calls, base>>
fwVars == <<banned_ips, banned_ips_v6, nfail>>
parseVars == <<input, parsed>>
vars == <<schedVars, baseVars, cycleVars, fwVars, parseVars>>

\* start_access_rules_updater has returned: the task is spawned and has not
\* run yet, both baselines are empty
Init ==
  /\ pc = "Starting"
  /\ now = 0
  /\ ticker = None
  /\ shutdown \in {[value |-> v, changed |-> FALSE] : v \in BOOLEAN}
  /\ skel \in BOOLEAN
  /\ previous_rules = {}
  /\ previous_rules_v6 = {}
  /\ resp = None
  /\ current_rules = {}
  /\ current_rules_v6 = {}
  /\ ipv4_changed = FALSE
  /\ ipv6_changed = FALSE
  /\ todo_unban = {}
  /\ todo_ban = {}
  /\ result = "None"
  /\ calls = <<>>
  /\ banned_ips = {}
  /\ banned_ips_v6 = {}
  /\ nfail = 0
  /\ base = [v4 |-> {}, v6 |-> {}]
  /\ input = None
  /\ parsed = None

\* ------------------------------------------------------------ environment
\* the holder of the watch sender sends v; true is never taken back.  The
\* task looks at the channel only in its select!, so a send during the
\* synchronous part of a cycle is the same as one during the fetch before it
Signal(v) ==
  /\ pc \in {"Starting", "Fetch", "Select"}
  /\ shutdown.value => v
  /\ shutdown' = [value |-> v, changed |-> TRUE]
  /\ UNCHANGED <<pc, now, ticker, skel, baseVars, cycleVars, fwVars, parseVars>>

\* Quantum seconds pass while the task is suspended: in the fetch, or in the
\* select! with the tick not yet due
Advance ==
  /\ now < MaxTime
  /\ \/ pc = "Fetch"
     \/ pc = "Select" /\ now < Unwrap(ticker)
  /\ now' = now + Quantum
  /\ UNCHANGED <<pc, ticker, shutdown, skel, baseVars, cycleVars, fwVars,
                 parseVars>>

\* ------------------------------------------------------------ the task
\* the task's first poll: the interval is created, its first tick due at
\* once, and the initial fetch_and_apply is started
Start ==
  /\ pc = "Starting"
  /\ ticker' = Some(now)
  /\ pc' = "Fetch"
  /\ UNCHANGED <<now, shutdown, skel, baseVars, cycleVars, fwVars, parseVars>>

\* config::fetch_config failed: fetch_and_apply returns the error
FetchErr ==
  /\ pc = "Fetch"
  /\ pc' = "Returned"
  /\ result' = "Err"
  /\ UNCHANGED <<now, ticker, shutdown, skel, baseVars, resp, current_rules,
                 current_rules_v6, ipv4_changed, ipv6_changed, todo_unban,
                 todo_ban, calls, base, fwVars, parseVars>>

\* an apply that runs whether or not there is a firewall handle
SkelAssumed(s) == TRUE

\* `if let Some(s) = skel`: apply_rules_to_skel runs only with a handle
SkelIsSome(s) == s

\* config::fetch_config returned doc: without a handle fetch_and_apply
\* returns Ok; with one, apply_rules_to_skel flattens doc, compares with the
\* baselines and returns Ok at once when neither family changed
FetchOk(doc) ==
  /\ pc = "Fetch"
  /\ resp' = Some(doc)
  /\ IF SkelIsSome(skel)
     THEN LET cur == Flatten(doc)
              ch4 == RulesChanged(previous_rules, cur.v4)
              ch6 == RulesChanged(previous_rules_v6, cur.v6)
              b4  == Batch(previous_rules, cur.v4, ch4)
          IN  /\ current_rules' = cur.v4
              /\ current_rules_v6' = cur.v6
              /\ ipv4_changed' = ch4
              /\ ipv6_changed' = ch6
              /\ IF ~ch4 /\ ~ch6
                 THEN /\ pc' = "Returned"
                      /\ result' = "Ok"
                      /\ UNCHANGED <<todo_unban, todo_ban>>
                 ELSE /\ pc' = "ApplyV4"
                      /\ todo_unban' = b4.unban
                      /\ todo_ban' = b4.ban
                      /\ UNCHANGED result
     ELSE /\ pc' = "Returned"
          /\ result' = "Ok"
          /\ UNCHANGED <<current_rules, current_rules_v6, ipv4_changed,
                         ipv6_changed, todo_unban, todo_ban>>
  /\ UNCHANGED <<now, ticker, shutdown, skel, baseVars, calls, base, fwVars,
                 parseVars>>

Call(op, fam, net, ok) == [op |-> op, fam |-> fam, net |-> net, ok |-> ok]

\* one iteration of the IPv4 unban loop: fw.unban_ip(net, prefix)
UnbanV4(net, ok) ==
  /\ pc = "ApplyV4"
  /\ NextCall(todo_unban, todo_ban) = "unban"
  /\ net \in todo_unban
  /\ ok \/ nfail < MaxFailures
  /\ calls' = Append(calls, Call("unban", 4, net, ok))
  /\ banned_ips' = IF ok THEN banned_ips \ {net} ELSE banned_ips
  /\ nfail' = IF ok THEN nfail ELSE nfail + 1
  /\ todo_unban' = AfterCall(todo_unban, net, ok)
  /\ UNCHANGED <<schedVars, baseVars, resp, current_rules, current_rules_v6,
                 ipv4_changed, ipv6_changed, todo_ban, result, base,
                 banned_ips_v6, parseVars>>

\* one iteration of the IPv4 ban loop: fw.ban_ip(net, prefix)
BanV4(net, ok) ==
  /\ pc = "ApplyV4"
  /\ NextCall(todo_unban, todo_ban) = "ban"
  /\ net \in todo_ban
  /\ ok \/ nfail < MaxFailures
  /\ calls' = Append(calls, Call("ban", 4, net, ok))
  /\ banned_ips' = IF ok THEN banned_ips \cup {net} ELSE banned_ips
  /\ nfail' = IF ok THEN nfail ELSE nfail + 1
  /\ todo_ban' = AfterCall(todo_ban, net, ok)
  /\ UNCHANGED <<schedVars, baseVars, resp, current_rules, current_rules_v6,
                 ipv4_changed, ipv6_changed, todo_unban, result, base,
                 banned_ips_v6, parseVars>>

\* the end of the IPv4 block: the baseline is replaced if the block ran,
\* and the IPv6 block is entered
CommitV4 ==
  /\ pc = "ApplyV4"
  /\ NextCall(todo_unban, todo_ban) = "done"
  /\ previous_rules' = IF ipv4_changed
                       THEN AdvanceBaseline(previous_rules, current_rules)
                       ELSE previous_rules
  /\ LET b6 == Batch(previous_rules_v6, current_rules_v6, ipv6_changed)
     IN  /\ todo_unban' = b6.unban
         /\ todo_ban' = b6.ban
  /\ pc' = "ApplyV6"
  /\ UNCHANGED <<now, ticker, shutdown, skel, previous_rules_v6, resp,
                 current_rules, current_rules_v6, ipv4_changed, ipv6_changed,
                 result, calls, base, fwVars, parseVars>>

\* one iteration of the IPv6 unban loop: fw.unban_ipv6(net, prefix)
UnbanV6(net, ok) ==
  /\ pc = "ApplyV6"
  /\ NextCall(todo_unban, todo_ban) = "unban"
  /\ net \in todo_unban
  /\ ok \/ nfail < MaxFailures
  /\ calls' = Append(calls, Call("unban", 6, net, ok))
  /\ banned_ips_v6' = IF ok THEN banned_ips_v6 \ {net} ELSE banned_ips_v6
  /\ nfail' = IF ok THEN nfail ELSE nfail + 1
  /\ todo_unban' = AfterCall(todo_unban, net, ok)
  /\ UNCHANGED <<schedVars, baseVars, resp, current_rules, current_rules_v6,
                 ipv4_changed, ipv6_changed, todo_ban, result, base,
                 banned_ips, parseVars>>

\* one iteration of the IPv6 ban loop: fw.ban_ipv6(net, prefix)
BanV6(net, ok) ==
  /\ pc = "ApplyV6"
  /\ NextCall(todo_unban, todo_ban) = "ban"
  /\ net \in todo_ban
  /\ ok \/ nfail < MaxFailures
  /\ calls' = Append(calls, Call("ban", 6, net, ok))
  /\ banned_ips_v6' = IF ok THEN banned_ips_v6 \cup {net} ELSE banned_ips_v6
  /\ nfail' = IF ok THEN nfail ELSE nfail + 1
  /\ todo_ban' = AfterCall(todo_ban, net, ok)
  /\ UNCHANGED <<schedVars, baseVars, resp, current_rules, current_rules_v6,
                 ipv4_changed, ipv6_changed, todo_unban, result, base,
                 banned_ips, parseVars>>

\* the end of the IPv6 block and of apply_rules_to_skel: Ok(())
CommitV6 ==
  /\ pc = "ApplyV6"
  /\ NextCall(todo_unban, todo_ban) = "done"
  /\ previous_rules_v6' = IF ipv6_changed
                          THEN AdvanceBaseline(previous_rules_v6,
                                               current_rules_v6)
                          ELSE previous_rules_v6
  /\ pc' = "Returned"
  /\ result' = "Ok"
  /\ UNCHANGED <<now, ticker, shutdown, skel, previous_rules, resp,
                 current_rules, current_rules_v6, ipv4_changed, ipv6_changed,
                 todo_unban, todo_ban, calls, base, fwVars, parseVars>>

\* the caller of fetch_and_apply takes the result (an error is printed) and
\* the task reaches the select! of the loop; the cycle's locals are dropped
CycleEnd ==
  /\ pc = "Returned"
  /\ pc' = AfterCycle(result)
  /\ resp' = None
  /\ current_rules' = {}
  /\ current_rules_v6' = {}
  /\ ipv4_changed' = FALSE
  /\ ipv6_changed' = FALSE
  /\ todo_unban' = {}
  /\ todo_ban' = {}
  /\ result' = "None"
  /\ calls' = <<>>
  /\ base' = [v4 |-> previous_rules, v6 |-> previous_rules_v6]
  /\ UNCHANGED <<now, ticker, shutdown, skel, baseVars, fwVars, parseVars>>

\* a loop that leaves on any change of the signal, whatever its value
ShouldBreakOnAnyChange(value) == TRUE

\* `if *shutdown.borrow() { break; }`: the loop is left only when the signal
\* read in the shutdown branch is true
ShouldBreak(value) == value

\* select! takes the shutdown.changed() branch: the change is marked seen,
\* the loop breaks if the value is true
SelectShutdown ==
  /\ pc = "Select"
  /\ shutdown.changed
  /\ shutdown' = [shutdown EXCEPT !.changed = FALSE]
  /\ pc' = IF ShouldBreak(shutdown.value) THEN "Stopped" ELSE "Select"
  /\ UNCHANGED <<now, ticker, skel, baseVars, cycleVars, fwVars, parseVars>>

\* select! takes the ticker.tick() branch: the tick is due; the next
\* deadline is set and a cycle is started
SelectTick ==
  /\ pc = "Select"
  /\ now >= Unwrap(ticker)
  /\ ticker' = Some(NextDeadline(Unwrap(ticker), now))
  /\ pc' = "Fetch"
  /\ UNCHANGED <<now, shutdown, skel, baseVars, cycleVars, fwVars, parseVars>>

Nets4 == UNION {Flatten(p).v4 : p \in Policies}
Nets6 == UNION {Flatten(p).v6 : p \in Policies}

Next ==
  \/ \E v \in BOOLEAN : Signal(v)
  \/ Advance
  \/ Start
  \/ FetchErr
  \/ \E doc \in Policies : FetchOk(doc)
  \/ \E net \in Nets4, ok \in BOOLEAN : UnbanV4(net, ok)
  \/ \E net \in Nets4, ok \in BOOLEAN : BanV4(net, ok)
  \/ CommitV4
  \/ \E net \in Nets6, ok \in BOOLEAN : UnbanV6(net, ok)
  \/ \E net \in Nets6, ok \in BOOLEAN : BanV6(net, ok)
  \/ CommitV6
  \/ CycleEnd
  \/ SelectShutdown
  \/ SelectTick

Spec == Init /\ [][Next]_vars

\* ------------------------------------------------------------ the parsers alone
ParseInit ==
  /\ pc = "Parse"
  /\ input \in {Some(i) : i \in ParseInputs}
  /\ parsed = None
  /\ now = 0
  /\ ticker = None
  /\ shutdown = [value |-> FALSE, changed |-> FALSE]
  /\ skel = FALSE
  /\ previous_rules = {}
  /\ previous_rules_v6 = {}
  /\ resp = None
  /\ current_rules = {}
  /\ current_rules_v6 = {}
  /\ ipv4_changed = FALSE
  /\ ipv6_changed = FALSE
  /\ todo_unban = {}
  /\ todo_ban = {}
  /\ result = "None"
  /\ calls = <<>>
  /\ banned_ips = {}
  /\ banned_ips_v6 = {}
  /\ nfail = 0
  /\ base = [v4 |-> {}, v6 |-> {}]

\* parse_ipv4_ip_or_cidr(entry)
NormalizeV4 ==
  /\ pc = "Parse"
  /\ parsed' = Some(parse_ipv4_ip_or_cidr(Unwrap(input).text))
  /\ pc' = "ParsedV4"
  /\ UNCHANGED <<now, ticker, shutdown, skel, baseVars, cycleVars, fwVars,
                 input>>

\* parse_ipv6_ip_or_cidr(entry)
NormalizeV6 ==
  /\ pc = "Parse"
  /\ parsed' = Some(parse_ipv6_ip_or_cidr(Unwrap(input).text))
  /\ pc' = "ParsedV6"
  /\ UNCHANGED <<now, ticker, shutdown, skel, baseVars, cycleVars, fwVars,
                 input>>

ParseNext == NormalizeV4 \/ NormalizeV6

ParseSpec == ParseInit /\ [][ParseNext]_vars

\* ------------------------------------------------------------ the flattening alone
\* the longest ips list of a generated policy
MaxEntries == 2

\* the entries of the generated policies: two texts of one IPv4 network, an
\* IPv6 network, and a rejected entry for each parser
FlattenEntries ==
  {S_10_0_0_5_24, S_10_0_0_0_24, S_2001_db8_1_64, S_not_an_ip, S_2001_db8_bad}

\* the lists of at most n entries
EntryLists(n) == UNION {[1..k -> FlattenEntries] : k \in 0..n}

\* the values of block.country and block.asn: no map, one map with one key,
\* one map with two keys, two maps
EntryMaps ==
  {<<>>}
  \cup {<<[hu |-> l]>> : l \in EntryLists(1)}
  \cup {<<[hu |-> <<S_10_0_0_5_24>>, at |-> <<S_not_an_ip, S_2001_db8_1_64>>]>>,
        <<[hu |-> <<S_2001_db8_bad>>], [at |-> <<S_10_0_0_0_24>>]>>}

FlattenDocs ==
  {[ips |-> l, country |-> c, asn |-> a] :
     l \in EntryLists(MaxEntries), c \in EntryMaps, a \in EntryMaps}

FlattenInit ==
  /\ pc = "Flatten"
  /\ resp \in {Some(d) : d \in FlattenDocs}
  /\ input = None
  /\ parsed = None
  /\ now = 0
  /\ ticker = None
  /\ shutdown = [value |-> FALSE, changed |-> FALSE]
  /\ skel = TRUE
  /\ previous_rules = {}
  /\ previous_rules_v6 = {}
  /\ current_rules = {}
  /\ current_rules_v6 = {}
  /\ ipv4_changed = FALSE
  /\ ipv6_changed = FALSE
  /\ todo_unban = {}
  /\ todo_ban = {}
  /\ result = "None"
  /\ calls = <<>>
  /\ banned_ips = {}
  /\ banned_ips_v6 = {}
  /\ nfail = 0
  /\ base = [v4 |-> {}, v6 |-> {}]

\* the three loops of apply_rules_to_skel over the fetched block section
FlattenDoc ==
  /\ pc = "Flatten"
  /\ LET cur == Flatten(Unwrap(resp))
     IN  /\ current_rules' = cur.v4
         /\ current_rules_v6' = cur.v6
  /\ pc' = "Flattened"
  /\ UNCHANGED <<now, ticker, shutdown, skel, baseVars, resp, ipv4_changed,
                 ipv6_changed, todo_unban, todo_ban, result, calls, base,
                 fwVars, parseVars>>

FlattenNext == FlattenDoc

FlattenSpec == FlattenInit /\ [][FlattenNext]_vars

\* ------------------------------------------------------------ properties
\* the networks of the cycle's calls of one kind to one family
CallsOf(op, fam) ==
  {calls[i].net : i \in {j \in 1..Len(calls) :
                           calls[j].op = op /\ calls[j].fam = fam}}

\* how often the cycle called op for net in family fam
CallCount(op, fam, net) ==
  Cardinality({i \in 1..Len(calls) :
                 calls[i].op = op /\ calls[i].fam = fam /\ calls[i].net = net})

\* a cycle with a firewall handle whose fetch succeeded has returned
CycleApplied == pc = "Returned" /\ result = "Ok" /\ skel

\* between the fetch and the return of a cycle with a firewall handle
InApply == skel /\ IsSome(resp) /\ pc \in {"ApplyV4", "ApplyV6", "Returned"}

SomeCallFailed == \E i \in 1..Len(calls) : ~calls[i].ok

Net_1_2_3_0_24 == <<<<1, 2, 3, 0>>, 24>>
Net_1_2_3_0_25 == <<<<1, 2, 3, 0>>, 25>>

\* the address bits of addr (units of width bits) below the prefix are zero
HostBitsZero(addr, prefix, width) ==
  \A k \in 1..Len(addr) :
    LET above == prefix - width * (k - 1)
        nb    == IF above < 0 THEN 0 ELSE IF above > width THEN width
                 ELSE above
    IN  addr[k] % (2 ^ (width - nb)) = 0

\* addr with only its top prefix bits kept
MaskedAddr(addr, prefix, width) ==
  [k \in 1..Len(addr) |->
     LET above == prefix - width * (k - 1)
         nb    == IF above < 0 THEN 0 ELSE IF above > width THEN width
                  ELSE above
     IN  addr[k] - (addr[k] % (2 ^ (width - nb)))]

Canonical4(net) == net[2] \in 0..32 /\ HostBitsZero(net[1], net[2], 8)
Canonical6(net) == net[2] \in 0..128 /\ HostBitsZero(net[1], net[2], 16)

\* C1: when a cycle whose fetch succeeded has returned, the unban calls of
\* each family are exactly the baseline minus the cycle's flattened set
\* and the ban calls exactly the flattened set minus the baseline; until
\* then the calls made are among these.
C1_ExactDiffCalls ==
  InApply =>
    LET cur == [v4 |-> current_rules, v6 |-> current_rules_v6]
    IN  /\ CallsOf("unban", 4) \subseteq base.v4 \ cur.v4
        /\ CallsOf("ban", 4) \subseteq cur.v4 \ base.v4
        /\ CallsOf("unban", 6) \subseteq base.v6 \ cur.v6
        /\ CallsOf("ban", 6) \subseteq cur.v6 \ base.v6
        /\ CycleApplied =>
             /\ CallsOf("unban", 4) = base.v4 \ cur.v4
             /\ CallsOf("ban", 4) = cur.v4 \ base.v4
             /\ CallsOf("unban", 6) = base.v6 \ cur.v6
             /\ CallsOf("ban", 6) = cur.v6 \ base.v6

\* the cycle that narrows 1.2.3.0/24 to 1.2.3.0/25 has returned
C1_Witness ==
  /\ CycleApplied
  /\ base.v4 = {Net_1_2_3_0_24}
  /\ Unwrap(resp) = P_slash25
  /\ Len(calls) = 2
  /\ calls[1].op = "unban" /\ calls[1].net = Net_1_2_3_0_24
  /\ calls[2].op = "ban" /\ calls[2].net = Net_1_2_3_0_25

\* C2: among the calls of a cycle, no ban of a family comes before an
\* unban of the same family.
C2_UnbanBeforeBan ==
  \A i, j \in 1..Len(calls) :
    (i < j /\ calls[i].fam = calls[j].fam /\ calls[i].op = "ban")
      => calls[j].op = "ban"

\* a block with removals and additions has made all its calls
C2_Witness ==
  /\ pc = "ApplyV4"
  /\ todo_unban = {} /\ todo_ban = {}
  /\ CallsOf("unban", 4) # {}
  /\ Cardinality(CallsOf("ban", 4)) >= 2

\* C3: in a cycle whose flattened set of a family equals that family's
\* baseline, no call is made for that family and its baseline stays as it
\* was; with both families unchanged no call is made at all.
C3_NoChangeShortCircuit ==
  InApply =>
    LET cur == [v4 |-> current_rules, v6 |-> current_rules_v6]
    IN  /\ cur.v4 = base.v4 =>
             /\ CallsOf("unban", 4) = {} /\ CallsOf("ban", 4) = {}
             /\ previous_rules = base.v4
        /\ cur.v6 = base.v6 =>
             /\ CallsOf("unban", 6) = {} /\ CallsOf("ban", 6) = {}
             /\ previous_rules_v6 = base.v6
        /\ (cur.v4 = base.v4 /\ cur.v6 = base.v6) =>
             calls = <<>> /\ pc = "Returned"

\* a cycle that fetched the policy already applied, not an empty one, has
\* returned
C3_Witness ==
  /\ CycleApplied
  /\ base.v4 # {} /\ base.v6 # {}
  /\ current_rules = base.v4 /\ current_rules_v6 = base.v6
  /\ calls = <<>>
  /\ previous_rules = base.v4 /\ previous_rules_v6 = base.v6

\* C4: in a cycle in which only the IPv4 set differs from its baseline no
\* IPv6 call is made and the IPv6 baseline stays as it was, and the same
\* with the families exchanged.
C4_FamilyIndependence ==
  InApply =>
    LET cur == [v4 |-> current_rules, v6 |-> current_rules_v6]
    IN  /\ (cur.v4 # base.v4 /\ cur.v6 = base.v6) =>
             /\ \A i \in 1..Len(calls) : calls[i].fam = 4
             /\ previous_rules_v6 = base.v6
        /\ (cur.v6 # base.v6 /\ cur.v4 = base.v4) =>
             /\ \A i \in 1..Len(calls) : calls[i].fam = 6
             /\ previous_rules = base.v4

\* a cycle that changed only the IPv4 set, next to IPv6 rules in place,
\* has returned
C4_Witness ==
  /\ CycleApplied
  /\ base.v6 # {}
  /\ current_rules_v6 = base.v6
  /\ current_rules # base.v4
  /\ calls # <<>>
  /\ previous_rules = current_rules

\* C5: once a family's block is done its baseline is the cycle's flattened
\* set of that family, whether or not calls of the block failed.
C5_BaselineAdvance ==
  /\ (InApply /\ pc \in {"ApplyV6", "Returned"}) =>
       previous_rules = current_rules
  /\ CycleApplied => previous_rules_v6 = current_rules_v6

\* a cycle that changed both families has returned, one call having failed
C5_Witness ==
  /\ CycleApplied
  /\ SomeCallFailed
  /\ ipv4_changed /\ ipv6_changed
  /\ previous_rules = current_rules
  /\ previous_rules_v6 = current_rules_v6

\* C6: when calls of a cycle fail, every entry to remove and every entry
\* to add, of both families, is still called exactly once, and the cycle
\* hands over to the select! of the loop: no step of a cycle stops the task.
C6_PartialFailure ==
  /\ [](CycleApplied =>
          LET cur == [v4 |-> current_rules, v6 |-> current_rules_v6]
          IN  /\ \A n \in base.v4 \ cur.v4 : CallCount("unban", 4, n) = 1
              /\ \A n \in cur.v4 \ base.v4 : CallCount("ban", 4, n) = 1
              /\ \A n \in base.v6 \ cur.v6 : CallCount("unban", 6, n) = 1
              /\ \A n \in cur.v6 \ base.v6 : CallCount("ban", 6, n) = 1
              /\ Len(calls) = Cardinality(base.v4 \ cur.v4)
                              + Cardinality(cur.v4 \ base.v4)
                              + Cardinality(base.v6 \ cur.v6)
                              + Cardinality(cur.v6 \ base.v6))
  /\ [][(pc \in {"Fetch", "ApplyV4", "ApplyV6"} => pc' # "Stopped")
        /\ (pc = "Returned" => pc' = "Select")]_vars

\* a cycle with three IPv4 additions, one of them failed before another
\* was made, and with IPv6 additions after them, has returned
C6_Witness ==
  /\ CycleApplied
  /\ Cardinality(CallsOf("ban", 4)) = 3
  /\ \E i \in 1..Len(calls) :
       /\ calls[i].op = "ban" /\ calls[i].fam = 4 /\ ~calls[i].ok
       /\ \E j \in (i + 1)..Len(calls) : calls[j].op = "ban" /\ calls[j].fam = 4
  /\ CallsOf("ban", 6) # {}

\* C7: a cycle whose fetch failed has made no call and left both baselines
\* as they were, and it hands over to the select! of the loop with the
\* baselines, the tables and the ticker untouched; from there a cycle is
\* started only by a tick that is due.
C7_FetchFailure ==
  /\ [](result = "Err" =>
          /\ pc = "Returned"
          /\ calls = <<>>
          /\ previous_rules = base.v4
          /\ previous_rules_v6 = base.v6)
  /\ [][/\ result = "Err" =>
             /\ pc' = "Select"
             /\ UNCHANGED <<baseVars, fwVars, ticker>>
        /\ (pc = "Select" /\ pc' = "Fetch") => now >= Unwrap(ticker)]_vars

\* a fetch failed with rules of both families applied
C7_Witness ==
  /\ pc = "Returned"
  /\ result = "Err"
  /\ previous_rules # {}
  /\ previous_rules_v6 # {}

\* C8: every network of the two baselines and of the cycle's calls has a
\* prefix length within its family's range and no address bit set below it.
C8_CanonicalForm ==
  /\ \A n \in previous_rules : Canonical4(n)
  /\ \A n \in previous_rules_v6 : Canonical6(n)
  /\ \A i \in 1..Len(calls) :
       IF calls[i].fam = 4 THEN Canonical4(calls[i].net)
       ELSE Canonical6(calls[i].net)

\* C9: a parser given an address a of its family, with a prefix p within
\* the family's range or with none (then the maximal one), returns a with
\* only its top p bits kept, and p.
C9_MaskingCorrectness ==
  (pc \in {"ParsedV4", "ParsedV6"}) =>
    LET i     == Unwrap(input)
        fam   == IF pc = "ParsedV4" THEN 4 ELSE 6
        max   == IF fam = 4 THEN 32 ELSE 128
        width == IF fam = 4 THEN 8 ELSE 16
        p     == IF i.prefix < 0 THEN max ELSE i.prefix
    IN  (i.fam = fam /\ p <= max) =>
          Unwrap(parsed) = Some(<<MaskedAddr(i.addr, p, width), p>>)

\* C10: the loop, at its select! with the shutdown signal true and not yet
\* seen, starts no cycle; and a cycle in flight is never cut short.
C10_ShutdownBoundary ==
  [][/\ (pc = "Select" /\ shutdown.value /\ shutdown.changed)
          => pc' # "Fetch"
     /\ (pc \in {"Fetch", "ApplyV4", "ApplyV6", "Returned"})
          => pc' # "Stopped"]_vars

\* C11: whenever the loop waits at its select! with the shutdown signal
\* true, the shutdown branch can be taken, so that the loop stops at this
\* boundary check without a further change of the signal; this includes a
\* signal that was already true when the task was started.
C11_LevelTriggeredShutdown ==
  (pc = "Select" /\ shutdown.value) => ENABLED SelectShutdown

\* C12: the task starts (at time 0) with exactly one cycle, and every cycle
\* started from the loop starts on a due tick, no earlier than one interval
\* after startup: the second cycle does not start directly after the first.
C12_ImmediateThenPeriodic ==
  [][/\ (pc = "Starting" /\ pc' # "Starting") => (pc' = "Fetch" /\ now = 0)
     /\ (pc = "Select" /\ pc' = "Fetch")
          => (now >= Unwrap(ticker) /\ now >= Period)]_vars

\* C13: a cycle is started from the loop only on a due tick, and that tick
\* moves the deadline at least one full interval past the moment it fired;
\* nothing else moves the deadline. After a cycle that overran, one cycle
\* starts for the late tick and the next one a full interval later.
C13_MissedTickDelay ==
  [][/\ (pc = "Select" /\ pc' = "Fetch")
          => /\ now >= Unwrap(ticker)
             /\ Unwrap(ticker') >= now + Period
     /\ (pc # "Starting" /\ ~(pc = "Select" /\ pc' = "Fetch"))
          => UNCHANGED ticker]_vars

\* a late tick has just fired after an overrun of more than one interval:
\* the next deadline is one interval from now, off the original grid
C13_Witness ==
  /\ pc = "Fetch"
  /\ now > Period
  /\ now % Period # 0
  /\ ticker = Some(now + Period)

\* C14: the task is stopped only with the shutdown signal true, and it gets
\* there only from the loop's select!: a cycle that returned an error (failed
\* fetch), that rejected entries or in which a ban or unban failed goes on to
\* the select! like any other.
C14_StopOnlyOnShutdown ==
  /\ [](pc = "Stopped" => shutdown.value)
  /\ [][(pc' = "Stopped" /\ pc # "Stopped")
           => (pc = "Select" /\ shutdown.value)]_vars
  /\ [][pc = "Returned" => pc' = "Select"]_vars

\* the task stopped on the signal after a run in which a call had failed
C14_Witness ==
  /\ pc = "Stopped"
  /\ shutdown.value
  /\ nfail > 0

\* a network the baseline lists as applied although its ban failed (stale
\* ban), or one that is still in the table although its unban failed and the
\* baseline dropped it (stale unban)
StaleBans4 == base.v4 \ banned_ips
StaleBans6 == base.v6 \ banned_ips_v6
StaleUnbans4 == banned_ips \ base.v4
StaleUnbans6 == banned_ips_v6 \ base.v6

\* the call c repeats a call that failed in an earlier cycle
IsRetry(c) ==
  \/ c.op = "ban" /\ c.fam = 4 /\ c.net \in StaleBans4
  \/ c.op = "ban" /\ c.fam = 6 /\ c.net \in StaleBans6
  \/ c.op = "unban" /\ c.fam = 4 /\ c.net \in StaleUnbans4
  \/ c.op = "unban" /\ c.fam = 6 /\ c.net \in StaleUnbans6

\* C15: no call of a cycle is a ban of a network that the baseline lists
\* but the table lacks (its ban failed earlier), nor an unban of a network
\* that the table holds but the baseline dropped (its unban failed earlier);
\* and a cycle whose policy flattens to the sets of the cycle before issues
\* no call at all. The failed call is never repeated while the policy stays
\* the same.
C15_NoRetry ==
  /\ []((InApply /\ current_rules = base.v4 /\ current_rules_v6 = base.v6)
          => (calls = <<>> /\ pc = "Returned"))
  /\ [][\A i \in (DOMAIN calls') \ (DOMAIN calls) : ~IsRetry(calls'[i])]_vars

\* a later cycle with the same policy has returned without a call although
\* the baseline lists a network that the table does not hold, or the table
\* holds one that the baseline does not list
C15_Witness ==
  /\ CycleApplied
  /\ current_rules = base.v4
  /\ current_rules_v6 = base.v6
  /\ calls = <<>>
  /\ StaleBans4 \cup StaleBans6 \cup StaleUnbans4 \cup StaleUnbans6 # {}

\* every entry of a block section: of ips, of every list of every country
\* map and of every list of every asn map
EntriesOfMaps(maps) ==
  UNION {UNION {{maps[i][k][j] : j \in 1..Len(maps[i][k])} :
                  k \in DOMAIN maps[i]} : i \in 1..Len(maps)}
AllEntries(block) ==
  {block.ips[j] : j \in 1..Len(block.ips)}
  \cup EntriesOfMaps(block.country) \cup EntriesOfMaps(block.asn)

\* what the parsers return for the entries without ':' that the IPv4 parser
\* accepts, and for those with ':' that the IPv6 parser accepts
ValidV4(block) ==
  {Unwrap(r) : r \in {p \in {parse_ipv4_ip_or_cidr(e) :
       e \in {x \in AllEntries(block) : ~Contains(x, ":")}} : IsSome(p)}}
ValidV6(block) ==
  {Unwrap(r) : r \in {p \in {parse_ipv6_ip_or_cidr(e) :
       e \in {x \in AllEntries(block) : Contains(x, ":")}} : IsSome(p)}}

\* the flattened sets hold what the parsers return for every accepted entry
\* of the three sources, and nothing else
FlatteningExact ==
  pc = "Flattened" =>
    /\ current_rules = ValidV4(Unwrap(resp))
    /\ current_rules_v6 = ValidV6(Unwrap(resp))

\* the normal form of an accepted entry: its network, host bits cleared
Normalization4(net) == <<MaskedAddr(net[1], net[2], 8), net[2]>>
Normalization6(net) == <<MaskedAddr(net[1], net[2], 16), net[2]>>

\* C16: the two flattened sets are exactly the normal forms of the accepted
\* entries of ips, of every country list and of every asn list, each in the
\* set of the family its ':' tells; a rejected entry adds nothing and stops
\* no other entry, and entries of one network add a single member.
C16_FlatteningCompleteness ==
  pc = "Flattened" =>
    /\ current_rules = {Normalization4(n) : n \in ValidV4(Unwrap(resp))}
    /\ current_rules_v6 = {Normalization6(n) : n \in ValidV6(Unwrap(resp))}

\* C17: a parser returns None for an entry that is empty, that has more
\* than one '/', whose address part is no address of the parser's family (an
\* address of the other family included) or whose prefix part is no unsigned
\* integer or is beyond the family's range; it accepts an address of its
\* family with no prefix or with any prefix from 0 to the family's maximum.
C17_RejectionRules ==
  (pc \in {"ParsedV4", "ParsedV6"}) =>
    LET i   == Unwrap(input)
        fam == IF pc = "ParsedV4" THEN 4 ELSE 6
        max == IF fam = 4 THEN 32 ELSE 128
        p   == IF i.prefix < 0 THEN max ELSE i.prefix
        r   == Unwrap(parsed)
    IN  /\ (i.wrong # "nothing" \/ i.fam # fam) => IsNone(r)
        /\ (i.wrong = "nothing" /\ i.fam = fam) =>
             (IsSome(r) /\ Unwrap(r)[2] = p)

\* the IPv4 parser has rejected an entry whose prefix part overflows a u8
C17_Witness ==
  /\ pc = "ParsedV4"
  /\ Unwrap(input).text = S_10_0_0_1_256
  /\ parsed = Some(None)

C19_NoHandle ==
  /\ [](~skel =>
          /\ calls = <<>>
          /\ pc \notin {"ApplyV4", "ApplyV6"}
          /\ previous_rules = {} /\ previous_rules_v6 = {}
          /\ banned_ips = {} /\ banned_ips_v6 = {})
  /\ [][~skel =>
          /\ (pc = "Fetch" /\ pc' # "Fetch")
               => (pc' = "Returned" /\ (result' = "Err" \/ IsSome(resp')))
          /\ pc = "Returned" => pc' = "Select"
          /\ (pc = "Select" /\ pc' = "Fetch")
               => /\ now >= Unwrap(ticker)
                  /\ ticker' = Some(NextDeadline(Unwrap(ticker), now))
          /\ (pc = "Select" /\ pc' = "Stopped")
               => (shutdown.value /\ shutdown.changed)
          /\ (pc' = "Stopped" /\ pc # "Stopped") => pc = "Select"]_vars

\* a cycle started by a later tick has fetched a policy with entries of
\* both families and returned, without a handle
C19_Witness ==
  /\ ~skel
  /\ pc = "Returned"
  /\ result = "Ok"
  /\ resp = Some(P_mixed)
  /\ now >= Period
  /\ calls = <<>>
  /\ previous_rules = {}

====
